---- MODULE Spec2Model ----
(***************************************************************************)
(* Model of src/main.rs: a population of random walkers (Walkers) that is  *)
(* advanced once per host update by one worker thread per walker, each     *)
(* sampling the captured previous frame, and the host update loop that     *)
(* feeds captures of the rendered texture back through an mpsc channel.    *)
(*                                                                         *)
(* f32 values are fixed-point integers: the value x is the integer         *)
(* x * Scale.  Angles are counted in steps of 7.5 degrees (pi / 24), unit  *)
(* velocities are the 48 headings of Dir.  u8 and u32 arithmetic keeps its *)
(* width: an overflow panics in a debug build and wraps in a release       *)
(* build, and the build is chosen in Init.                                 *)
(***************************************************************************)
EXTENDS Integers, Sequences, FiniteSets, TLC

VARIABLES
    build,            \* "debug" | "release": decides what an integer overflow does
    walkers,          \* Walkers.walkers
    turn_chance,      \* Walkers.turn_chance, in hundredths
    division_chance,  \* Walkers.division_chance, in hundredths
    speed,            \* Walkers.speed, fixed-point
    width,            \* Walkers.width, fixed-point
    height,           \* Walkers.height, fixed-point
    pc,               \* position of the main thread
    prev_frame,       \* the image Walkers::update was called with
    children,         \* the worker threads of the running Walkers::update
    chan,             \* results sent on (tx, rx) and not yet received
    received,         \* iterations of the receive loop done so far
    image_chan,       \* images sent on (image_sender, image_receiver), not yet received
    pending,          \* snapshots whose read callback has not run yet
    renders,          \* number of host update calls that rendered and captured
    first_run,        \* Model.first_run
    drawn             \* the line segments emitted by the last Walkers::draw

vars == <<build, walkers, turn_chance, division_chance, speed, width, height,
          pc, prev_frame, children, chan, received, image_chan, pending,
          renders, first_run, drawn>>

params == <<build, turn_chance, division_chance, speed, width, height>>
hostvars == <<image_chan, pending, renders, first_run>>

-----------------------------------------------------------------------------
(* Numbers *)

Scale == 32

WIDTH == 889
HEIGHT == 500

turn_angle == 8
division_angle == 6
kill_threshold == 150

MaxHostUpdates == 3

F(n) == n * Scale

\* n / d rounded to the nearest integer (d > 0)
RoundDiv(n, d) == (2 * n + d) \div (2 * d)

\* product of two fixed-point values
FMul(a, b) == RoundDiv(a * b, Scale)

\* `as u32` of a fixed-point f32: truncates toward zero, saturates below at 0
AsU32(x) == IF x <= 0 THEN 0 ELSE x \div Scale

Min(a, b) == IF a <= b THEN a ELSE b

\* an integer overflow panics in a debug build and wraps in a release build
Panics(overflowed) == overflowed /\ build = "debug"

\* u32::MAX.  TLC's integers end at 2^31 - 1, which stands here for 2^32 - 1:
\* the model needs of it only that it is above every image dimension.
U32Max == 2147483647

\* u32 subtraction
U32Sub(a, b) == IF a >= b THEN a - b ELSE U32Max - (b - a - 1)
U32SubOverflows(a, b) == a < b

\* u8 addition
U8Add(a, b) == (a + b) % 256
U8AddOverflows(a, b) == a + b > 255

-----------------------------------------------------------------------------
(* Vec2 and Walker *)

Dir == <<
       <<32, 0>>, <<32, 4>>, <<30, 8>>, <<30, 12>>, <<28, 16>>, <<26, 20>>,
       <<22, 22>>, <<20, 26>>, <<16, 28>>, <<12, 30>>, <<8, 30>>, <<4, 32>>,
       <<0, 32>>, <<-4, 32>>, <<-8, 30>>, <<-12, 30>>, <<-16, 28>>, <<-20, 26>>,
       <<-22, 22>>, <<-26, 20>>, <<-28, 16>>, <<-30, 12>>, <<-30, 8>>, <<-32, 4>>,
       <<-32, 0>>, <<-32, -4>>, <<-30, -8>>, <<-30, -12>>, <<-28, -16>>, <<-26, -20>>,
       <<-22, -22>>, <<-20, -26>>, <<-16, -28>>, <<-12, -30>>, <<-8, -30>>, <<-4, -32>>,
       <<0, -32>>, <<4, -32>>, <<8, -30>>, <<12, -30>>, <<16, -28>>, <<20, -26>>,
       <<22, -22>>, <<26, -20>>, <<28, -16>>, <<30, -12>>, <<30, -8>>, <<32, -4>> >>

Headings == Len(Dir)

Heading(v) == CHOOSE h \in 1..Headings : Dir[h] = v

\* Vec2::rotate: counter-clockwise by `steps` headings
rotate(v, steps) == Dir[((Heading(v) - 1 + steps) % Headings) + 1]

pt2(x, y) == <<x, y>>

NewWalker(position, velocity) ==
    [position |-> position, prev_position |-> position,
     velocity |-> velocity, dead |-> FALSE]

\* factor without the - 1.0
factor_Uncentred(roll) == 2 * roll

\* gen_range(0..100) as f32 / 100.0 * 2.0 - 1.0, in hundredths
factor(roll) == 2 * roll - 100

turn(w, angle, roll) ==
    [w EXCEPT !.velocity = rotate(@, RoundDiv(angle * factor(roll), 100))]

\* next_position with the speed left out
next_position_NoSpeed(w, spd) ==
    pt2(w.position[1] + w.velocity[1], w.position[2] + w.velocity[2])

next_position(w, spd) ==
    pt2(w.position[1] + FMul(w.velocity[1], spd),
        w.position[2] + FMul(w.velocity[2], spd))

advance(w, spd) ==
    [w EXCEPT !.prev_position = w.position, !.position = next_position(w, spd)]

\* Walker::draw: one line from prev_position to position
Segment(w) == <<w.prev_position, w.position>>

\* draw walking the list from its end
draw_Reversed(ws) == [i \in 1..Len(ws) |-> Segment(ws[Len(ws) + 1 - i])]

\* Walkers::draw
draw(ws) == [i \in 1..Len(ws) |-> Segment(ws[i])]

NewWalkers(spd, wd, ht) ==
    << NewWalker(pt2(0, FMul(ht, -(Scale \div 2))), pt2(0, Scale)),
       NewWalker(pt2(FMul(wd, -(Scale \div 2)), 0), pt2(Scale, 0)) >>

-----------------------------------------------------------------------------
(* RgbaImage *)

\* An image is its dimensions and the number of the render it captured; the
\* colour of a pixel is drawn from Pixels when the pixel is read.
Image(id, w, h) == [id |-> id, width |-> w, height |-> h]

NoImage == Image(0, 0, 0)

\* <<r, g, b, a>> samples a capture can hold
Pixels == { <<0, 0, 0, 255>>, <<255, 255, 255, 255>>, <<150, 150, 0, 150>> }

\* values of gen_range(0..100) the rolls are drawn from
ChanceRolls == {0, 50, 99}
FactorRolls == {0, 50, 75}

\* fn map
map(i, in_min, in_max, out_min, out_max) ==
    ((i - in_min) * (out_max - out_min)) \div (in_max - in_min) + out_min

-----------------------------------------------------------------------------
(* The worker thread of Walkers::update (the closure given to thread::spawn) *)

\* if turn_value < turn_chance { walker.turn(turn_angle) }
TurnStep(w, turn_value, turn_factor) ==
    IF turn_value < turn_chance THEN turn(w, turn_angle, turn_factor) ELSE w

\* Offspring cloned after the advance
Offspring_Advanced(w, div_value, div_factor) ==
    IF div_value < division_chance
    THEN << turn(advance(w, speed), division_angle, div_factor) >>
    ELSE << >>

\* the offspring pushed on new_walkers when the division roll succeeds
Offspring(w, div_value, div_factor) ==
    IF div_value < division_chance
    THEN << turn(w, division_angle, div_factor) >>
    ELSE << >>

\* WrapX without the reset of prev_position
WrapX_KeepPrev(w) ==
    LET hwidth == width \div 2 IN
    IF w.position[1] >= hwidth
    THEN [w EXCEPT !.position = pt2(w.position[1] - width, w.position[2])]
    ELSE IF w.position[1] <= -hwidth
    THEN [w EXCEPT !.position = pt2(w.position[1] + width, w.position[2])]
    ELSE w

WrapX(w) ==
    LET hwidth == width \div 2 IN
    IF w.position[1] >= hwidth
    THEN LET p == pt2(w.position[1] - width, w.position[2])
         IN  [w EXCEPT !.position = p, !.prev_position = p]
    ELSE IF w.position[1] <= -hwidth
    THEN LET p == pt2(w.position[1] + width, w.position[2])
         IN  [w EXCEPT !.position = p, !.prev_position = p]
    ELSE w

\* WrapY left out: only x wraps
WrapY_Off(w) == w

WrapY(w) ==
    LET hheight == height \div 2 IN
    IF w.position[2] >= hheight
    THEN LET p == pt2(w.position[1], w.position[2] - height)
         IN  [w EXCEPT !.position = p, !.prev_position = p]
    ELSE IF w.position[2] <= -hheight
    THEN LET p == pt2(w.position[1], w.position[2] + height)
         IN  [w EXCEPT !.position = p, !.prev_position = p]
    ELSE w

Wrap(w) == WrapY(WrapX(w))

PixelX(w, img) ==
    AsU32(map(w.position[1], -(width \div 2), width \div 2, 0, F(img.width)))

PixelY(w, img) ==
    AsU32(map(w.position[2], -(height \div 2), height \div 2, 0, F(img.height)))

\* SampleCoord without the two .min() clamps
SampleCoord_NoClamp(w, img) ==
    << PixelX(w, img), U32Sub(U32Sub(img.height, 1), PixelY(w, img)) >>

\* SampleCoord without the flip of the row
SampleCoord_NoFlip(w, img) ==
    << Min(PixelX(w, img), U32Sub(img.width, 1)),
       Min(PixelY(w, img), U32Sub(img.height, 1)) >>

\* the arguments of img.get_pixel, <<x, y>>
SampleCoord(w, img) ==
    LET xmax == U32Sub(img.width, 1)
        ymax == U32Sub(img.height, 1)
    IN  << Min(PixelX(w, img), xmax), U32Sub(ymax, Min(PixelY(w, img), ymax)) >>

\* img_width - 1 or img_height - 1 overflows
SampleCoordOverflows(img) ==
    U32SubOverflows(img.width, 1) \/ U32SubOverflows(img.height, 1)

\* ImageBuffer::get_pixel panics when the coordinate is outside the image
InBounds(c, img) == c[1] < img.width /\ c[2] < img.height

\* (pixel[0] + pixel[1] + pixel[3]) / 3 in u8
Avg(pixel) == U8Add(U8Add(pixel[1], pixel[2]), pixel[4]) \div 3

AvgOverflows(pixel) ==
    \/ U8AddOverflows(pixel[1], pixel[2])
    \/ U8AddOverflows(U8Add(pixel[1], pixel[2]), pixel[4])

\* if avg >= kill_threshold { walker.dead = true }
Kill(w, avg) == IF avg >= kill_threshold THEN [w EXCEPT !.dead = TRUE] ELSE w

\* Group with the offspring never pushed
Group_DropOffspring(offspring, w) == << w >>

\* new_walkers as sent: the offspring, if any, then the walker
Group(offspring, w) == offspring \o << w >>

\* A spawned thread that has not run yet.
Spawned(w) ==
    [walker |-> w, state |-> "running", divided |-> FALSE, adv |-> w, out |-> w,
     sample |-> << >>, pixel |-> << >>, group |-> << >>]

\* The thread run to its end: state "done" when it sent its group, "panicked"
\* when it unwound before the send.  adv is the walker after Walker::update,
\* out the walker as pushed, sample and pixel what get_pixel was given and gave.
Run(w, img, turn_value, turn_factor, div_value, div_factor, pixel) ==
    LET turned    == TurnStep(w, turn_value, turn_factor)
        offspring == Offspring(turned, div_value, div_factor)
        adv       == advance(turned, speed)
        wrapped   == Wrap(adv)
        coord     == SampleCoord(wrapped, img)
        base      == [walker |-> w, state |-> "panicked", divided |-> offspring # << >>,
                      adv |-> adv, out |-> wrapped, sample |-> << >>,
                      pixel |-> << >>, group |-> << >>]
    IN  IF Panics(SampleCoordOverflows(img)) THEN base
        ELSE IF ~InBounds(coord, img) THEN [base EXCEPT !.sample = coord]
        ELSE IF Panics(AvgOverflows(pixel))
             THEN [base EXCEPT !.sample = coord, !.pixel = pixel]
        ELSE LET out == Kill(wrapped, Avg(pixel))
             IN  [base EXCEPT !.state = "done", !.out = out, !.sample = coord,
                              !.pixel = pixel, !.group = Group(offspring, out)]

-----------------------------------------------------------------------------
(* Walkers::update on the main thread *)

\* for w in self.walkers.iter() { ... thread::spawn ... }; self.walkers = vec![]
Dispatch(img) ==
    /\ prev_frame' = img
    /\ children' = [i \in 1..Len(walkers) |-> Spawned(walkers[i])]
    /\ walkers' = << >>
    /\ chan' = << >>
    /\ received' = 0
    /\ pc' = "recv"

\* Walker::turn draws its factor only when it is called: the rolls to draw
\* from when the roll `value` was drawn against `chance`.
TurnRolls(value, chance) == IF value < chance THEN FactorRolls ELSE {0}

\* One worker thread runs from its first statement to thread_tx.send or to a panic.
Worker(i) ==
    /\ children[i].state = "running"
    /\ \E turn_value \in ChanceRolls, div_value \in ChanceRolls, pixel \in Pixels :
       \E turn_factor \in TurnRolls(turn_value, turn_chance),
          div_factor \in TurnRolls(div_value, division_chance) :
         LET r == Run(children[i].walker, prev_frame, turn_value, turn_factor,
                      div_value, div_factor, pixel)
         IN  /\ children' = [children EXCEPT ![i] = r]
             /\ chan' = IF r.state = "done" THEN Append(chan, r.group) ELSE chan
    /\ UNCHANGED <<params, walkers, pc, prev_frame, received, hostvars, drawn>>

\* .iter().filter(|w| !w.dead).map(|w| w.clone()).collect()
Filter(group) == SelectSeq(group, LAMBDA w : ~w.dead)

\* RecvCount of a loop that receives before it tests
RecvCount_AtLeastOne == IF Len(children) = 0 THEN 1 ELSE Len(children)

\* RecvCount one iteration short
RecvCount_OneShort == Len(children) - 1

\* for _ in 0..children.len()
RecvCount == Len(children)

\* Recv with try_recv: an iteration that finds the channel empty moves on
Recv_TryRecv ==
    /\ pc = "recv"
    /\ received < RecvCount
    /\ walkers' = IF chan # << >> THEN walkers \o Filter(Head(chan)) ELSE walkers
    /\ chan' = IF chan # << >> THEN Tail(chan) ELSE chan
    /\ received' = received + 1
    /\ UNCHANGED <<params, pc, prev_frame, children, hostvars, drawn>>

\* Recv assigning the received group where the code appends it
Recv_Overwrite ==
    /\ pc = "recv"
    /\ received < RecvCount
    /\ chan # << >>
    /\ walkers' = Filter(Head(chan))
    /\ chan' = Tail(chan)
    /\ received' = received + 1
    /\ UNCHANGED <<params, pc, prev_frame, children, hostvars, drawn>>

\* One iteration of the receive loop: rx.recv() blocks until a group is there.
Recv ==
    /\ pc = "recv"
    /\ received < RecvCount
    /\ chan # << >>
    /\ walkers' = walkers \o Filter(Head(chan))
    /\ chan' = Tail(chan)
    /\ received' = received + 1
    /\ UNCHANGED <<params, pc, prev_frame, children, hostvars, drawn>>

\* The receive loop is over and every child.join() has returned.
Joinable ==
    /\ pc = "recv"
    /\ received = RecvCount
    /\ \A i \in 1..Len(children) : children[i].state # "running"

\* child.join().expect("oops! the child thread panicked")
JoinPanics == \E i \in 1..Len(children) : children[i].state = "panicked"

-----------------------------------------------------------------------------
(* The host: fn update and the snapshot read callback *)

\* The texture is created with the size the walkers are given, as u32.
Capture(id) == Image(id, AsU32(width), AsU32(height))

\* fn update from draw.reset() to snapshot.read(..): draw the walkers, render
\* to the texture, capture it and leave the read callback pending.
Render ==
    /\ drawn' = draw(walkers)
    /\ first_run' = FALSE
    /\ renders' = renders + 1
    /\ pending' = pending \cup {renders + 1}
    /\ pc' = "idle"

\* HostUpdate calling Walkers::update with the last image when try_recv gives none
HostUpdate_NoSkip ==
    /\ pc = "idle"
    /\ renders < MaxHostUpdates
    /\ IF image_chan # << >>
       THEN /\ Dispatch(Head(image_chan))
            /\ image_chan' = Tail(image_chan)
       ELSE /\ Dispatch(Capture(renders))
            /\ UNCHANGED image_chan
    /\ UNCHANGED <<pending, renders, first_run, drawn>>
    /\ UNCHANGED params

\* fn update up to the end of the spawn loop of Walkers::update, or, when
\* try_recv gives no image, the whole of it.
HostUpdate ==
    /\ pc = "idle"
    /\ renders < MaxHostUpdates
    /\ IF image_chan # << >>
       THEN /\ Dispatch(Head(image_chan))
            /\ image_chan' = Tail(image_chan)
            /\ UNCHANGED <<pending, renders, first_run, drawn>>
       ELSE /\ Render
            /\ UNCHANGED <<walkers, prev_frame, children, chan, received, image_chan>>
    /\ UNCHANGED params

\* Walkers::update returns (or the join panics) and fn update goes on to its end.
HostJoin ==
    /\ Joinable
    /\ IF JoinPanics
       THEN /\ pc' = "halted"
            /\ UNCHANGED <<walkers, children, pending, renders, first_run, drawn>>
       ELSE /\ children' = << >>
            /\ UNCHANGED walkers
            /\ Render
    /\ UNCHANGED <<params, prev_frame, chan, received, image_chan>>

\* The callback given to snapshot.read runs on another thread: sender.send(image).
SnapshotCallback(id) ==
    /\ id \in pending
    /\ pending' = pending \ {id}
    /\ image_chan' = Append(image_chan, Capture(id))
    /\ UNCHANGED <<params, walkers, pc, prev_frame, children, chan, received,
                   renders, first_run, drawn>>

\* fn model: Walkers::new(0.5, size[0], size[1]) with the window's size
Init ==
    /\ build \in {"debug", "release"}
    /\ turn_chance = 1
    /\ division_chance = 0
    /\ speed = Scale \div 2
    /\ width = F(WIDTH)
    /\ height = F(HEIGHT)
    /\ walkers = NewWalkers(speed, width, height)
    /\ pc = "idle"
    /\ prev_frame = NoImage
    /\ children = << >>
    /\ chan = << >>
    /\ received = 0
    /\ image_chan = << >>
    /\ pending = {}
    /\ renders = 0
    /\ first_run = TRUE
    /\ drawn = << >>

Next ==
    \/ HostUpdate
    \/ \E i \in 1..Len(children) : Worker(i)
    \/ Recv
    \/ HostJoin
    \/ \E id \in pending : SnapshotCallback(id)

Spec == Init /\ [][Next]_vars

-----------------------------------------------------------------------------
(* One call of Walkers::update, then Walkers::draw, on any population and    *)
(* any image: the caller is any code holding a Walkers, not only fn update.  *)

\* canvas sizes Walkers::new is given
TickCanvases == { <<100, 100>> }

\* image sizes Walkers::update is given
TickImages == { Image(1, 100, 100), Image(1, 7, 3), Image(1, 0, 0), Image(1, 5, 0) }

\* half a unit and a unit a tick, and the width of the canvas a tick
TickSpeeds == { Scale \div 2, Scale, F(100) }

TickChances == { <<0, 0>>, <<1, 0>>, <<0, 50>>, <<1, 50>> }

\* positions on a canvas of half width hw and half height hh: the centre,
\* half a unit below it, inside each edge by a quarter or a half, a corner,
\* and on an edge
TickPositions(hw, hh) ==
    LET q == Scale \div 4
        h == Scale \div 2
    IN  { <<0, 0>>, <<0, -h>>, <<hw - q, 0>>, <<q - hw, 0>>, <<0, hh - h>>,
          <<0, q - hh>>, <<hw - q, hh - q>>, <<-hw, 0>> }

TickVelocities == { Dir[1], Dir[7], Dir[13], Dir[25], Dir[37] }

TickPopulations(spd, wd, ht) ==
    { << >>, NewWalkers(spd, wd, ht) }
    \cup { << NewWalker(p, v) >> : p \in TickPositions(wd \div 2, ht \div 2),
                                    v \in TickVelocities }

InitTick ==
    /\ build \in {"debug", "release"}
    /\ \E c \in TickChances : turn_chance = c[1] /\ division_chance = c[2]
    /\ speed \in TickSpeeds
    /\ \E c \in TickCanvases : width = F(c[1]) /\ height = F(c[2])
    /\ walkers \in TickPopulations(speed, width, height)
    /\ pc = "idle"
    /\ prev_frame = NoImage
    /\ children = << >>
    /\ chan = << >>
    /\ received = 0
    /\ image_chan = << >>
    /\ pending = {}
    /\ renders = 0
    /\ first_run = TRUE
    /\ drawn = << >>

\* walkers.update(&img) up to the end of its spawn loop
CallUpdate(img) ==
    /\ pc = "idle"
    /\ Dispatch(img)
    /\ UNCHANGED <<params, hostvars, drawn>>

\* Walkers::update returns (or the join panics), then walkers.draw(&draw)
CallerJoin ==
    /\ Joinable
    /\ IF JoinPanics
       THEN pc' = "halted" /\ UNCHANGED drawn
       ELSE pc' = "returned" /\ drawn' = draw(walkers)
    /\ UNCHANGED <<params, walkers, prev_frame, children, chan, received, hostvars>>

NextTick ==
    \/ \E img \in TickImages : CallUpdate(img)
    \/ \E i \in 1..Len(children) : Worker(i)
    \/ Recv
    \/ CallerJoin

SpecTick == InitTick /\ [][NextTick]_vars

-----------------------------------------------------------------------------
(* Properties *)

ChildIds == 1..Len(children)

Finished(i) == children[i].state # "running"

Divisions == Cardinality({ i \in ChildIds : children[i].divided })

Deaths == Cardinality({ i \in ChildIds : children[i].out.dead })

\* number of places of seq that hold x
Occ(seq, x) == Cardinality({ j \in 1..Len(seq) : seq[j] = x })

RECURSIVE OccInGroups(_, _)
\* number of places x holds in the filtered groups of children 1..i
OccInGroups(i, x) ==
    IF i = 0 THEN 0
    ELSE OccInGroups(i - 1, x) + Occ(Filter(children[i].group), x)

\* C1: when Walkers::update has returned, the population holds as many
\* walkers as were dispatched, plus one per worker whose division roll
\* succeeded, minus one per walker marked dead in the call, and none of them
\* is dead.
C1_PopulationCount ==
    pc = "returned" =>
        /\ Len(walkers) = Len(children) + Divisions - Deaths
        /\ \A j \in 1..Len(walkers) : ~walkers[j].dead

\* C1 witness: an update of two walkers has returned after a division.
C1_Witness ==
    /\ pc = "returned"
    /\ Len(children) = 2
    /\ Divisions >= 1
    /\ Len(walkers) = 2 + Divisions

\* C2: when Walkers::update has returned after dispatching K walkers, K
\* threads were spawned, each ran to its send, K groups were received and
\* none is left in the channel, and the walker list holds exactly the
\* walkers of the K groups that are not dead, each the result of a whole run
\* of its thread.
C2_AllGroupsCollected ==
    pc = "returned" =>
        /\ received = Len(children)
        /\ chan = << >>
        /\ \A i \in ChildIds : children[i].state = "done"
        /\ \A i \in ChildIds : \A j \in 1..Len(children[i].group) :
               Occ(walkers, children[i].group[j])
                   = OccInGroups(Len(children), children[i].group[j])
        /\ \A j \in 1..Len(walkers) : OccInGroups(Len(children), walkers[j]) >= 1

\* C2 witness: an update of two walkers has returned with both groups received.
C2_Witness ==
    /\ pc = "returned"
    /\ Len(children) = 2
    /\ received = 2
    /\ Len(walkers) >= 2

\* the sample's red, green and alpha channels have a mean of at least kill_threshold
MeanAtLeastThreshold(pixel) == pixel[1] + pixel[2] + pixel[4] >= 3 * kill_threshold

Sampled(i) == children[i].pixel # << >>

\* C3: a worker that has read its sample leaves its walker marked dead
\* exactly when the mean of the sample's red, green and alpha channels is at
\* least kill_threshold; so a walker on an opaque white pixel is marked dead.
C3_KillAtThreshold ==
    \A i \in ChildIds :
        Sampled(i) =>
            ((children[i].state = "done" /\ children[i].out.dead)
                 <=> MeanAtLeastThreshold(children[i].pixel))

\* the main thread is inside rx.recv() and no thread is left that could send
WaitsForever ==
    /\ pc = "recv"
    /\ received < RecvCount
    /\ chan = << >>
    /\ \A i \in ChildIds : Finished(i)

\* C4: when a worker thread panicked before its send, Walkers::update does
\* not wait forever for its group, and does not return without it: the main
\* thread halts.
C4_WorkerFailureHalts ==
    (\E i \in ChildIds : children[i].state = "panicked") =>
        /\ ~WaitsForever
        /\ pc \in {"recv", "halted"}

\* C5: the image Walkers::update runs on is the capture of the render of the
\* host update call just before this one.
C5_FrameIsLatestRender ==
    pc = "recv" => prev_frame.id = renders

Degenerate(img) == img.width = 0 \/ img.height = 0

\* the walkers the running (or returned) Walkers::update was entered with
Dispatched == [i \in ChildIds |-> children[i].walker]

\* C6: a Walkers::update called with an image of zero width or height
\* faults in no thread, does not wait forever, and returns with the walker
\* list it was called with.
C6_DegenerateFrameNoOp ==
    (pc # "idle" /\ Degenerate(prev_frame)) =>
        /\ \A i \in ChildIds : children[i].state # "panicked"
        /\ ~WaitsForever
        /\ pc = "returned" => walkers = Dispatched

\* C7: a host update call that finds no image in the channel does not enter
\* Walkers::update and leaves the walker list as it was.
C7_NoFrameNoUpdate ==
    [][ (pc = "idle" /\ image_chan = << >> /\ (pc' # "idle" \/ renders' # renders))
          => /\ pc' = "idle"
             /\ walkers' = walkers
             /\ children' = children
             /\ prev_frame' = prev_frame
             /\ renders' = renders + 1 ]_vars

\* C7 witness: two host update calls have rendered and Walkers::update was
\* never entered.
C7_Witness ==
    /\ renders = 2
    /\ pc = "idle"
    /\ prev_frame = NoImage
    /\ walkers = NewWalkers(speed, width, height)

\* what the claimed wrap rule makes of coordinate c on an axis of length len
WrapRule(c, len) ==
    IF 2 * c >= len THEN c - len
    ELSE IF 2 * c <= -len THEN c + len
    ELSE c

\* the advanced position of child i is over an edge of the canvas
Wrapped(i) ==
    LET a == children[i].adv.position
    IN  \/ WrapRule(a[1], width) # a[1]
        \/ WrapRule(a[2], height) # a[2]

\* C8: a thread that has run leaves its walker at the advanced position
\* with width subtracted from x at or beyond width/2 and added at or below
\* -width/2 (y and height alike); and when either axis wrapped, the walker's
\* prev_position is its position.
C8_WrapRule ==
    \A i \in ChildIds :
        Finished(i) =>
            LET a == children[i].adv.position
                o == children[i].out
            IN  /\ o.position = << WrapRule(a[1], width), WrapRule(a[2], height) >>
                /\ Wrapped(i) => o.prev_position = o.position

\* C8 witness: a walker advanced to width/2 + 1/4 is back at -width/2 + 1/4
\* with no trail.
C8_Witness ==
    \E i \in ChildIds :
        /\ children[i].state = "done"
        /\ 2 * children[i].adv.position[1] = width + Scale \div 2
        /\ 2 * children[i].out.position[1] = Scale \div 2 - width
        /\ children[i].out.position[2] = children[i].adv.position[2]
        /\ children[i].out.prev_position = children[i].out.position

\* value v clamped to lo..hi
Clamp(v, lo, hi) == IF v < lo THEN lo ELSE IF v > hi THEN hi ELSE v

\* c on an axis of length len mapped onto 0..n, times len
Mapped(c, len, n) == ((2 * c + len) * n) \div 2

\* x / len rounded to the nearest integer, and truncated toward zero
Rounded(x, len) == (2 * x + len) \div (2 * len)
Truncated(x, len) == IF x >= 0 THEN x \div len ELSE -((-x) \div len)

\* the sampling of child i was given an image that has pixels
SampledIn(i) == children[i].sample # << >> /\ ~Degenerate(prev_frame)

\* C9 as claimed: the pixel read is at the rounded mapped position, clamped
\* into the image, with the row counted from the bottom.
C9_SampleRounded ==
    \A i \in ChildIds :
        SampledIn(i) =>
            LET o  == children[i].out.position
                bw == prev_frame.width
                bh == prev_frame.height
            IN  children[i].sample =
                    << Clamp(Rounded(Mapped(o[1], width, bw), width), 0, bw - 1),
                       bh - 1 - Clamp(Rounded(Mapped(o[2], height, bh), height), 0, bh - 1) >>

\* C9 as amended: the pixel read is at the mapped position truncated toward
\* zero, clamped into the image, with the row counted from the bottom.
C9_SampleTruncated ==
    \A i \in ChildIds :
        SampledIn(i) =>
            LET o  == children[i].out.position
                bw == prev_frame.width
                bh == prev_frame.height
            IN  children[i].sample =
                    << Clamp(Truncated(Mapped(o[1], width, bw), width), 0, bw - 1),
                       bh - 1 - Clamp(Truncated(Mapped(o[2], height, bh), height), 0, bh - 1) >>

\* C9 witness: a walker at (0, 0) on the 100 x 100 canvas read column 50 of
\* row 49 of a 100 x 100 image.
C9_Witness ==
    \E i \in ChildIds :
        /\ children[i].state = "done"
        /\ width = F(100) /\ height = F(100)
        /\ prev_frame.width = 100 /\ prev_frame.height = 100
        /\ children[i].out.position = << 0, 0 >>
        /\ children[i].sample = << 50, 49 >>

\* v * speed
Step(v) == << RoundDiv(v[1] * speed, Scale), RoundDiv(v[2] * speed, Scale) >>

\* C10: with both chances 0, an update of the single walker (p, v) that did
\* not wrap and read a sample below the threshold returns with the one walker
\* at p + v * speed, prev_position p and velocity v, and the draw that
\* follows emits the one segment p -> p + v * speed.
C10_SingleStep ==
    ( /\ pc = "returned"
      /\ turn_chance = 0 /\ division_chance = 0
      /\ Len(children) = 1
      /\ ~Wrapped(1)
      /\ Sampled(1) /\ ~MeanAtLeastThreshold(children[1].pixel) )
    => LET p == children[1].walker.position
           v == children[1].walker.velocity
           q == << p[1] + Step(v)[1], p[2] + Step(v)[2] >>
       IN  /\ walkers = << [position |-> q, prev_position |-> p,
                            velocity |-> v, dead |-> FALSE] >>
           /\ drawn = << << p, q >> >>

\* C10 witness: the walker at (0, 0) with velocity (0, 1) and speed 1 is at
\* (0, 1) and the segment (0, 0) -> (0, 1) was drawn.
C10_Witness ==
    /\ pc = "returned"
    /\ turn_chance = 0 /\ division_chance = 0 /\ speed = Scale
    /\ Len(children) = 1
    /\ children[1].walker.position = << 0, 0 >>
    /\ walkers = << [position |-> << 0, Scale >>, prev_position |-> << 0, 0 >>,
                     velocity |-> << 0, Scale >>, dead |-> FALSE] >>
    /\ drawn = << << << 0, 0 >>, << 0, Scale >> >> >>

\* C11: Walkers::draw emits one segment prev_position -> position for each
\* walker of the list, in the order of the list, none for a dead walker, and
\* leaves the list and the parameters as they were.
C11_DrawPerWalker ==
    [][ (pc = "recv" /\ pc' = "returned")
          => /\ Len(drawn') = Len(walkers)
             /\ \A j \in 1..Len(walkers) :
                    /\ drawn'[j] = << walkers[j].prev_position, walkers[j].position >>
                    /\ ~walkers[j].dead
             /\ walkers' = walkers
             /\ UNCHANGED params ]_vars

\* C11 witness: three walkers, not all alike, were drawn in their order.
C11_Witness ==
    /\ pc = "returned"
    /\ Len(walkers) = 3
    /\ Len(drawn) = 3
    /\ walkers[1] # walkers[3]
    /\ \A j \in 1..3 : drawn[j] = << walkers[j].prev_position, walkers[j].position >>

\* headings from v to w, counter-clockwise, in -Headings/2 + 1 .. Headings/2
HeadingChange(v, w) ==
    LET d == (Heading(w) - Heading(v)) % Headings
    IN  IF 2 * d > Headings THEN d - Headings ELSE d

Within(d, limit) == -limit <= d /\ d <= limit

\* C12: the factor of every roll is within [-1, 1]; the turn of a worker
\* leaves the heading within turn_angle of the heading it was given, the turn
\* of an offspring within division_angle of its parent's; and a turn changes
\* neither position, prev_position nor the dead flag.
C12_TurnBounded ==
    /\ \A roll \in 0..99 : Within(factor(roll), 100)
    /\ \A i \in ChildIds :
           Finished(i) =>
               LET w == children[i].walker
                   a == children[i].adv
                   g == children[i].group
               IN  /\ Within(HeadingChange(w.velocity, a.velocity), turn_angle)
                   /\ turn_chance = 0 => a.velocity = w.velocity
                   /\ a.prev_position = w.position
                   /\ a.dead = w.dead
                   /\ (children[i].state = "done" /\ children[i].divided) =>
                          /\ Within(HeadingChange(a.velocity, g[1].velocity), division_angle)
                          /\ g[1].position = w.position
                          /\ g[1].prev_position = w.prev_position
                          /\ g[1].dead = w.dead

\* C12 witness: a walker was turned by the whole of turn_angle, clockwise.
C12_Witness ==
    \E i \in ChildIds :
        /\ children[i].state = "done"
        /\ HeadingChange(children[i].walker.velocity, children[i].adv.velocity) = -turn_angle
        /\ children[i].adv.prev_position = children[i].walker.position

\* workers whose thread has sent its group
Sent == { i \in ChildIds : children[i].state = "done" }

C14_OffspringIsPreAdvanceClone ==
    \A i \in ChildIds :
        children[i].state = "done" =>
            LET w == children[i].walker
                g == children[i].group
            IN  IF children[i].divided
                THEN /\ Len(g) = 2
                     /\ g[1].position = w.position
                     /\ g[1].prev_position = w.prev_position
                     /\ ~g[1].dead
                     /\ g[2] = children[i].out
                     /\ g[2].prev_position \in {w.position, g[2].position}
                     /\ pc = "returned" => Occ(walkers, g[1]) > 0
                ELSE g = << children[i].out >>

\* C14 witness: update returned, and the offspring stands where the parent
\* stood while the parent has moved on.
C14_Witness ==
    /\ pc = "returned"
    /\ \E i \in ChildIds :
           /\ children[i].state = "done"
           /\ children[i].divided
           /\ children[i].group[1].position = children[i].walker.position
           /\ children[i].out.position # children[i].walker.position
           /\ Occ(walkers, children[i].group[1]) > 0

\* C15: a call of update always returns. Every step of a call finishes a
\* worker, receives one of the K groups or ends the call, so a call takes at
\* most 2K + 1 steps and fails to return under a fair scheduler exactly when
\* it reaches a state with no step left; stated here: while the call is in
\* progress a worker thread can run, recv() can return or the joins are done,
\* and at return every worker has terminated.
C15_UpdateNeverStuck ==
    /\ pc = "recv" =>
           \/ \E i \in ChildIds : children[i].state = "running"
           \/ ENABLED Recv
           \/ ENABLED CallerJoin
    /\ pc = "returned" => \A i \in ChildIds : Finished(i)

\* the orders in which the groups of the workers can arrive
ArrivalOrders == { p \in [ChildIds -> ChildIds] : \A i, j \in ChildIds : p[i] = p[j] => i = j }

RECURSIVE InstalledUpTo(_, _)
\* the list built from the first n groups arriving in order p
InstalledUpTo(p, n) ==
    IF n = 0 THEN << >>
    ELSE InstalledUpTo(p, n - 1) \o SelectSeq(children[p[n]].group, LAMBDA w : ~w.dead)

\* the groups in the order the workers were dispatched
DispatchOrder == [i \in ChildIds |-> i]

\* C16: the list update installs is the surviving walkers of the groups of
\* all workers, group after group in some arrival order; whatever that order,
\* each walker of a group is there as many times as the groups hold it.
C16_ArrivalOrderOnly ==
    pc = "returned" =>
        /\ \E p \in ArrivalOrders : walkers = InstalledUpTo(p, Len(children))
        /\ \A p \in ArrivalOrders : \A j \in 1..Len(walkers) :
               Occ(walkers, walkers[j])
                   = Occ(InstalledUpTo(p, Len(children)), walkers[j])

\* C16 witness: the group of the second worker arrived first, and the list is
\* not in the order of dispatch.
C16_Witness ==
    /\ pc = "returned"
    /\ Len(children) = 2
    /\ walkers = InstalledUpTo(<<2, 1>>, 2)
    /\ walkers # InstalledUpTo(DispatchOrder, 2)

\* C17: update called on an empty list spawns no thread, receives nothing and
\* returns with the list empty, whatever the frame and the build, so the list
\* stays empty call after call; and no dead walker is in the list or
\* dispatched to a worker.
C17_EmptyStaysEmpty ==
    /\ (pc # "idle" /\ Len(children) = 0) =>
           /\ walkers = << >>
           /\ chan = << >>
           /\ received = 0
           /\ pc \in {"recv", "returned"}
           /\ pc = "recv" => ENABLED CallerJoin
           /\ pc = "returned" => drawn = << >>
    /\ \A j \in 1..Len(walkers) : ~walkers[j].dead
    /\ \A i \in ChildIds : ~children[i].walker.dead

\* C17 witness: update returned from an empty list, here with a frame of no
\* pixels in a debug build, and the list is empty and nothing is drawn.
C17_Witness ==
    /\ pc = "returned"
    /\ Len(children) = 0
    /\ walkers = << >>
    /\ drawn = << >>
    /\ Degenerate(prev_frame)
    /\ build = "debug"

\* C18: for a frame of at least one pixel each way, the column and the row
\* given to get_pixel are within 0..width-1 and 0..height-1 of the frame,
\* for a walker on the edge of the canvas too.
C18_SampleInsideFrame ==
    \A i \in ChildIds :
        (Finished(i) /\ prev_frame.width >= 1 /\ prev_frame.height >= 1) =>
            /\ children[i].sample # << >>
            /\ 0 <= children[i].sample[1]
            /\ children[i].sample[1] <= prev_frame.width - 1
            /\ 0 <= children[i].sample[2]
            /\ children[i].sample[2] <= prev_frame.height - 1

\* C18 witness: a walker exactly on the right edge, where map gives the
\* width of the frame, read the last column.
C18_Witness ==
    \E i \in ChildIds :
        /\ children[i].state = "done"
        /\ 2 * children[i].out.position[1] = width
        /\ prev_frame.width >= 1
        /\ children[i].sample[1] = prev_frame.width - 1

\* p is in the closed rectangle [-width/2, width/2] x [-height/2, height/2]
InCanvas(p) ==
    /\ -width <= 2 * p[1] /\ 2 * p[1] <= width
    /\ -height <= 2 * p[2] /\ 2 * p[2] <= height

\* C19: walkers that start in the closed rectangle of the canvas and move at
\* most its width and height a tick stay in it: every walker a worker hands
\* back, offspring included, and every walker of the list is inside.
C19_StaysInCanvas ==
    /\ \A j \in 1..Len(walkers) : InCanvas(walkers[j].position)
    /\ \A i \in ChildIds :
           /\ InCanvas(children[i].walker.position)
           /\ Finished(i) => InCanvas(children[i].out.position)
           /\ \A k \in 1..Len(children[i].group) : InCanvas(children[i].group[k].position)

\* C19 witness: a walker moved the whole width of the canvas in the tick,
\* was wrapped, and is in the installed list inside the rectangle.
C19_Witness ==
    /\ pc = "returned"
    /\ \E i \in ChildIds :
           /\ children[i].adv.position[1] - children[i].walker.position[1] = width
           /\ children[i].out.position # children[i].adv.position
           /\ InCanvas(children[i].out.position)
           /\ Occ(walkers, children[i].out) > 0

====
